---- MODULE Spec2Model ----
(***************************************************************************)
(* EnvironmentDetector of src/octoprint/environment.py: a cache of the     *)
(* detected environment guarded by a reentrant lock, three built-in probes,*)
(* the plugin collection and the plugin notification.                      *)
(*                                                                         *)
(* Python objects that can be reached through more than one reference      *)
(* (the cached dict, the dict run_detection returns) carry an object id;   *)
(* copy.deepcopy yields a new id with an equal value.  Values handed to    *)
(* the detector by plugins are plain data, which deepcopy always copies.   *)
(***************************************************************************)
EXTENDS Integers, Sequences, FiniteSets, TLC

\* ---------------------------------------------------------------- bounds
NumThreads == 2
NumPlugins == 2
\* calls made in all, by the threads of the concurrent specification
MaxCalls   == 2
\* calls made by the one thread of the sequential specification
MaxSeqCalls == 3

Threads == 1..NumThreads
Plugins == 1..NumPlugins

\* ------------------------------------------------------------ data model
\* A snapshot is a function from category names to category data; dict()
\* is the function with the empty domain.
EmptyDict == [k \in {} |-> "unknown"]

\* plugin._identifier: unique per plugin instance, here the registration index
_identifier(p) == p

\* what a plugin's get_additional_environment can do
Facts == {"a", "b"}
GetOutcomes == {"raise", "none", "empty", "nonmap"} \cup Facts
\* the mapping a plugin returns for outcome f \in Facts: {"key": f}
FactDict(f) == [key |-> f]

\* what one lookup of the host can do
LookupOutcomes == {"ok", "falsy", "raise"}

\* ---------------------------------------------------------- the probes
\* Each returns [raised |-> BOOLEAN, val |-> result]; raised means that an
\* exception leaves the function.

\* _detect_os: no try block around get_os() / sys.platform
_detect_os(h) ==
  IF h.os = "raise"
  THEN [raised |-> TRUE, val |-> EmptyDict]
  ELSE [raised |-> FALSE, val |-> [id |-> "linux", platform |-> "linux2"]]

\* _detect_python: three lookups, each in its own try block
_detect_python_PipEscapes(h) ==
  LET version == IF h.py.version = "ok" THEN "3.7.3" ELSE "unknown"
      base    == [version |-> version, pip |-> "19.0"]
  IN [raised |-> h.py.pip = "raise",
      val |-> IF h.py.venv = "ok"
              THEN [k \in {"version", "pip", "virtualenv"} |->
                      IF k = "virtualenv" THEN "/opt/venv" ELSE base[k]]
              ELSE base]
_detect_python(h) ==
  LET version == IF h.py.version = "ok" THEN "3.7.3" ELSE "unknown"
      pip     == IF h.py.pip = "ok" THEN "19.0" ELSE "unknown"
      base    == [version |-> version, pip |-> pip]
  IN [raised |-> FALSE,
      val |-> IF h.py.venv = "ok"
              THEN [k \in {"version", "pip", "virtualenv"} |->
                      IF k = "virtualenv" THEN "/opt/venv" ELSE base[k]]
              ELSE base]

\* _detect_hardware: the three lookups share ONE try block, and the fields
\* are assigned after all three lookups have returned
_detect_hardware(h) ==
  LET unknown == [cores |-> "unknown", freq |-> "unknown", ram |-> "unknown"]
      anyRaise == h.hw.cores = "raise" \/ h.hw.freq = "raise" \/ h.hw.ram = "raise"
  IN [raised |-> FALSE,
      val |-> IF anyRaise THEN unknown
              ELSE [cores |-> IF h.hw.cores = "ok" THEN "4" ELSE "unknown",
                    freq  |-> IF h.hw.freq = "ok" THEN "1400" ELSE "unknown",
                    ram   |-> IF h.hw.ram = "ok" THEN "1G" ELSE "unknown"]]

\* one iteration of the loop of _detect_from_plugins: plugin p, result so far
PluginStep_RaiseClears(h, p, result) ==
  LET additional == h.get[p] IN
  IF additional \in Facts
  THEN [q \in DOMAIN result \cup {_identifier(p)} |->
          IF q = _identifier(p) THEN FactDict(additional) ELSE result[q]]
  ELSE IF additional = "raise" THEN [q \in {} |-> FactDict("a")]
  ELSE result
PluginStep(h, p, result) ==
  LET additional == h.get[p] IN
  IF additional \in Facts
  THEN [q \in DOMAIN result \cup {_identifier(p)} |->
          IF q = _identifier(p) THEN FactDict(additional) ELSE result[q]]
  ELSE result   \* raise (caught, logged), None, {} or not a dict: nothing recorded

RECURSIVE PluginLoop(_, _, _)
PluginLoop(h, p, result) ==
  IF p > NumPlugins THEN result
  ELSE PluginLoop(h, p + 1, PluginStep(h, p, result))

\* _detect_from_plugins: all plugins in registration order
_detect_from_plugins(h) ==
  [raised |-> FALSE, val |-> PluginLoop(h, 1, [q \in {} |-> FactDict("a")])]

\* run_detection, lines 41-44: environment = dict() and the three probes in
\* order; invoked lists the probes that were called, order the calls in the
\* order they were made
ProbeStage_DropsFailedCategory(h) ==
  LET o  == _detect_os(h)
      py == _detect_python(h)
      hw == _detect_hardware(h)
  IN IF o.raised
     THEN [raised |-> TRUE, val |-> EmptyDict, invoked |-> {"os"},
           order |-> <<"os">>]
     ELSE [raised |-> FALSE,
           val |-> IF h.py.pip = "raise"
                   THEN [os |-> o.val, hardware |-> hw.val]
                   ELSE [os |-> o.val, python |-> py.val, hardware |-> hw.val],
           invoked |-> {"os", "python", "hardware"},
           order |-> <<"os", "python", "hardware">>]
ProbeStage(h) ==
  LET o  == _detect_os(h)
      py == _detect_python(h)
      hw == _detect_hardware(h)
  IN IF o.raised
     THEN [raised |-> TRUE, val |-> EmptyDict, invoked |-> {"os"},
           order |-> <<"os">>]
     ELSE IF py.raised
     THEN [raised |-> TRUE, val |-> EmptyDict, invoked |-> {"os", "python"},
           order |-> <<"os", "python">>]
     ELSE [raised |-> hw.raised,
           val |-> [os |-> o.val, python |-> py.val, hardware |-> hw.val],
           invoked |-> {"os", "python", "hardware"},
           order |-> <<"os", "python", "hardware">>]

\* what a call did, in the order it did it: a probe, a plugin's
\* get_additional_environment, the cache store, a plugin's
\* on_environment_detected
Event(e, p) == [e |-> e, p |-> p]
ProbeEvents(order) == [i \in 1..Len(order) |-> Event(order[i], 0)]

\* the loop of _detect_from_plugins, line 116: the plugins in registration order
RECURSIVE GetEvents(_)
GetEvents(p) ==
  IF p > NumPlugins THEN <<>>
  ELSE <<Event("get", _identifier(p))>> \o GetEvents(p + 1)

\* the loop of notify_plugins, line 162: the plugins in registration order
RECURSIVE NotifyEvents(_)
NotifyEvents(p) ==
  IF p > NumPlugins THEN <<>>
  ELSE <<Event("notify", _identifier(p))>> \o NotifyEvents(p + 1)

\* run_detection, lines 46-48: the plugin collection and "if plugin_result:"
PluginStage_AlwaysPlugins(h, environment) ==
  LET pl == _detect_from_plugins(h)
  IN [raised |-> pl.raised,
      val |-> [k \in DOMAIN environment \cup {"plugins"} |->
                 IF k = "plugins" THEN pl.val ELSE environment[k]]]
PluginStage(h, environment) ==
  LET pl == _detect_from_plugins(h)
  IN [raised |-> pl.raised,
      val |-> IF DOMAIN pl.val # {}
              THEN [k \in DOMAIN environment \cup {"plugins"} |->
                      IF k = "plugins" THEN pl.val ELSE environment[k]]
              ELSE environment]

\* the dict a pass builds on host h when nothing raises out of it
BuildEnvironment(h) == PluginStage(h, ProbeStage(h).val).val

\* a caller's change to a dict it was handed: d["tampered"] = {...}
Tamper(d) ==
  [k \in DOMAIN d \cup {"tampered"} |->
     IF k = "tampered" THEN [by |-> "caller"] ELSE d[k]]

\* _format, lines 146-154: the message needs environment["python"]["version"],
\* environment["os"]["id"] and environment["os"]["platform"]
CanFormat(d) ==
  /\ {"python", "os"} \subseteq DOMAIN d
  /\ "version" \in DOMAIN d["python"]
  /\ {"id", "platform"} \subseteq DOMAIN d["os"]

\* ------------------------------------------------------------- the hosts
\* A host fixes what every lookup and every get_additional_environment does
\* during one pass.
HostOf(os, py, hw, get) ==
  [os |-> os, py |-> py, hw |-> hw, get |-> get]

Py3(a, b, c) == [version |-> a, venv |-> b, pip |-> c]
Hw3(a, b, c)    == [cores |-> a, freq |-> b, ram |-> c]

\* the hosts of the concurrent specification
HostA ==
  HostOf("ok", Py3("ok", "falsy", "ok"), Hw3("ok", "ok", "ok"),
         [p \in Plugins |-> IF p = 1 THEN "a" ELSE "none"])
HostB ==
  HostOf("ok", Py3("ok", "ok", "raise"), Hw3("raise", "ok", "ok"),
         [p \in Plugins |-> IF p = 1 THEN "raise" ELSE "b"])
HostDown ==
  HostOf("raise", Py3("raise", "raise", "raise"), Hw3("raise", "raise", "raise"),
         [p \in Plugins |-> "raise"])
Hosts == {HostA, HostB, HostDown}

\* what the plugins' on_environment_detected do during one round of
\* notifications: all return, or the first one raises
NotifyCases ==
  { [p \in Plugins |-> "ok"], [p \in Plugins |-> IF p = 1 THEN "raise" ELSE "ok"] }

\* the hosts of the probe specification: every combination of lookup and
\* get_additional_environment outcomes
ProbeHosts ==
  { HostOf(os, py, hw, get) :
      os \in {"ok", "raise"},
      py \in [version : {"ok", "raise"}, venv : LookupOutcomes, pip : {"ok", "raise"}],
      hw \in [cores : LookupOutcomes, freq : LookupOutcomes, ram : LookupOutcomes],
      get \in [Plugins -> GetOutcomes] }

\* ---------------------------------------------------------------- state
VARIABLES
  cache,      \* self._cache: [set, id, val]; set = FALSE is None
  lockOwner,  \* self._cache_lock: owning thread, 0 when free
  lockCount,  \* self._cache_lock: recursion depth of the owner
  stack,      \* per thread: the frames of the call it is executing
  cur,        \* per thread: number of the call it executes, 0 when idle
  call,       \* per call: what it did and what it returned
  ver         \* number of cache stores so far

vars == <<cache, lockOwner, lockCount, stack, cur, call, ver>>

NoCache == [set |-> FALSE, id |-> 0, val |-> EmptyDict]
\* what a call returned: None, or the dict object id with the value it had
\* when it was returned
NoRet   == [kind |-> "none", id |-> 0, val |-> EmptyDict]
DictRet(id, val) == [kind |-> "dict", id |-> id, val |-> val]

Ops == {"environment", "run_detection", "notify_plugins", "log_detected_environment"}

FirstPc(fn) ==
  CASE fn = "environment" -> "lock"
    [] fn = "run_detection" -> "probes"
    [] fn = "notify_plugins" -> "lock"
    [] fn = "log_detected_environment" -> "emit"
    [] fn = "_format" -> "lock"

NoView == [set |-> FALSE, val |-> EmptyDict]
View(d) == [set |-> TRUE, val |-> d]

\* env: the frame's local variable "environment"; holds: the frame is inside
\* its "with self._cache_lock" block
Frame(fn, notify) ==
  [fn |-> fn, pc |-> FirstPc(fn), notify |-> notify, env |-> NoView, holds |-> FALSE]

\* the except clause a frame's function has around its body
HandlerOf_NoDetectionHandler(fn) ==
  CASE fn = "log_detected_environment" -> "failed"
    [] OTHER -> "none"
HandlerOf(fn) ==
  CASE fn = "run_detection" -> "except"
    [] fn = "log_detected_environment" -> "failed"
    [] OTHER -> "none"

Top(t)  == stack[t][Len(stack[t])]
Rest(t) == SubSeq(stack[t], 1, Len(stack[t]) - 1)
At(t, fn, pc) ==
  /\ stack[t] # <<>>
  /\ Top(t).fn = fn
  /\ Top(t).pc = pc

\* threading.RLock: acquire blocks while another thread owns the lock;
\* release frees it when the owner's recursion depth returns to zero
CanAcquire_NotReentrant(t) == lockOwner = 0
CanAcquire_Unlocked(t) == t \in Threads
CanAcquire(t) == lockOwner \in {0, t}
OwnerAfterRelease_NotReentrant == IF lockCount >= 1 THEN 0 ELSE lockOwner
OwnerAfterRelease == IF lockCount = 1 THEN 0 ELSE lockOwner

\* ids of the dicts a call creates
EnvId(k)  == 2 * k
CopyId(k) == 2 * k + 1
FailId(k) == 0 - k

CacheView(c) == [set |-> c.set, val |-> c.val]

\* copy.deepcopy(self._cache): an equal value in a new object (None for None)
DeepCopy(c) == [set |-> c.set, val |-> c.val]

Init ==
  /\ cache = NoCache
  /\ lockOwner = 0
  /\ lockCount = 0
  /\ stack = [t \in Threads |-> <<>>]
  /\ cur = [t \in Threads |-> 0]
  /\ call = <<>>
  /\ ver = 0

\* --------------------------------------------------------- bookkeeping
NewCall(t, op, notify) ==
  [t |-> t, op |-> op, notify |-> notify, status |-> "running",
   host |-> HostDown, passes |-> 0, raised |-> FALSE, lazy |-> FALSE,
   probes |-> [os |-> 0, python |-> 0, hardware |-> 0],
   storeVer |-> 0, readVer |-> 0, notif |-> <<>>, logged |-> "none",
   later |-> {}, events |-> <<>>,
   ret |-> NoRet, passEnd |-> NoView,
   overlap |-> \E u \in Threads \ {t} : cur[u] # 0]

\* the frame on top is left: the caller continues, or the call is over
Leave(t, rec, ret) ==
  /\ stack' = [stack EXCEPT ![t] = Rest(t)]
  /\ IF Len(stack[t]) = 1
     THEN /\ call' = [call EXCEPT ![cur[t]] =
                        [rec EXCEPT !.status = "returned", !.ret = ret]]
          /\ cur' = [cur EXCEPT ![t] = 0]
     ELSE /\ call' = [call EXCEPT ![cur[t]] = rec]
          /\ cur' = cur

\* An exception propagates out of the frame on top: the innermost frame with
\* an except clause (and not already in it) takes it; a frame without one is
\* left, its with block releasing the lock; with no frame left the call
\* raises to its caller.
RECURSIVE Unwind(_)
Unwind(stk) ==
  IF stk = <<>> THEN [stk |-> <<>>, released |-> 0]
  ELSE LET f == stk[Len(stk)]
           h == HandlerOf(f.fn)
       IN IF h # "none" /\ f.pc # h
          THEN [stk |-> SubSeq(stk, 1, Len(stk) - 1) \o <<[f EXCEPT !.pc = h]>>,
                released |-> 0]
          ELSE LET u == Unwind(SubSeq(stk, 1, Len(stk) - 1))
               IN [stk |-> u.stk,
                   released |-> u.released + (IF f.holds THEN 1 ELSE 0)]

\* the frame on top of thread t's stack raises; calls are the call records
\* as the raising step leaves them, rec that of the raising call
RaiseIn(t, rec, calls) ==
  LET u == Unwind(stack[t])
  IN /\ stack' = [stack EXCEPT ![t] = u.stk]
     /\ lockCount' = lockCount - u.released
     /\ lockOwner' = IF lockCount - u.released = 0 THEN 0 ELSE lockOwner
     /\ IF u.stk = <<>>
        THEN /\ call' = [calls EXCEPT ![cur[t]] = [rec EXCEPT !.status = "raised"]]
             /\ cur' = [cur EXCEPT ![t] = 0]
        ELSE /\ call' = [calls EXCEPT ![cur[t]] = rec]
             /\ cur' = cur

Raise(t, rec) == RaiseIn(t, rec, call)

\* the pass of the explicit run_detection call k begins to probe: the explicit
\* run_detection calls that have probed and not stored yet note that a later
\* pass has begun
Overtaken(k) ==
  [j \in 1..Len(call) |->
     IF /\ j # k
        /\ call[k].op = "run_detection"
        /\ call[j].op = "run_detection"
        /\ call[j].status = "running"
        /\ call[j].passes > 0
        /\ call[j].storeVer = 0
     THEN [call[j] EXCEPT !.later = @ \cup {k}]
     ELSE call[j]]

\* ------------------------------------------------------------- callers
\* a thread calls one of the public operations; threads are numbered in the
\* order of their first calls
Started(t) == \E k \in 1..Len(call) : call[k].t = t

Call(t, op, notify, limit) ==
  /\ cur[t] = 0
  /\ Len(call) < limit
  /\ \A u \in 1..(t - 1) : Started(u)
  /\ call' = Append(call, NewCall(t, op, notify))
  /\ cur' = [cur EXCEPT ![t] = Len(call) + 1]
  /\ stack' = [stack EXCEPT ![t] =
       IF op = "log_detected_environment"   \* line 136: _log(self._format())
       THEN <<Frame(op, notify), Frame("_format", notify)>>
       ELSE <<Frame(op, notify)>>]
  /\ UNCHANGED <<cache, lockOwner, lockCount, ver>>

\* the caller of call k changes the dict the call returned: the cache changes
\* with it when that dict is the cached object, and nothing of the detector
\* changes when it is another object
CallerMutate(k) ==
  /\ k \in 1..Len(call)
  /\ call[k].status = "returned"
  /\ call[k].ret.kind = "dict"
  /\ cur[call[k].t] = 0
  /\ cache' = IF cache.set /\ cache.id = call[k].ret.id
              THEN [cache EXCEPT !.val = Tamper(cache.val)]
              ELSE cache
  /\ UNCHANGED <<lockOwner, lockCount, stack, cur, call, ver>>

\* A plugin keeps a reference to the mapping its get_additional_environment
\* returned during the pass of call k and changes it after the call is over.
\* Line 120 stored that very object in the result and lines 48 and 51 put the
\* result in the cache without copying: the cache changes with it while it
\* holds the dict of that pass.
PluginMutate(k, p) ==
  /\ k \in 1..Len(call)
  /\ call[k].status = "returned"
  /\ call[k].storeVer >= 1
  /\ ~call[k].raised
  /\ call[k].host.get[p] \in Facts
  /\ cache' = IF /\ cache.set
                 /\ cache.id = EnvId(k)
                 /\ "plugins" \in DOMAIN cache.val
                 /\ _identifier(p) \in DOMAIN cache.val["plugins"]
              THEN [cache EXCEPT !.val =
                      [@ EXCEPT !["plugins"] =
                         [@ EXCEPT ![_identifier(p)] = FactDict("mutated")]]]
              ELSE cache
  /\ UNCHANGED <<lockOwner, lockCount, stack, cur, call, ver>>

\* --------------------------------------------------------- environment
\* lines 34-36: with self._cache_lock: if self._cache is None: self.run_detection()
EnvLock_RedetectsEmpty(t) ==
  /\ At(t, "environment", "lock")
  /\ CanAcquire(t)
  /\ lockOwner' = t
  /\ lockCount' = lockCount + 1
  /\ LET f == [Top(t) EXCEPT !.pc = "copy", !.holds = TRUE]
     IN stack' = [stack EXCEPT ![t] =
                    IF cache.set /\ cache.val # EmptyDict THEN Rest(t) \o <<f>>
                    ELSE Rest(t) \o <<f, Frame("run_detection", TRUE)>>]
  /\ call' = [call EXCEPT ![cur[t]].lazy = ~cache.set]
  /\ UNCHANGED <<cache, cur, ver>>
EnvLock(t) ==
  /\ At(t, "environment", "lock")
  /\ CanAcquire(t)
  /\ lockOwner' = t
  /\ lockCount' = lockCount + 1
  /\ LET f == [Top(t) EXCEPT !.pc = "copy", !.holds = TRUE]
     IN stack' = [stack EXCEPT ![t] =
                    IF cache.set THEN Rest(t) \o <<f>>
                    ELSE Rest(t) \o <<f, Frame("run_detection", TRUE)>>]
  /\ call' = [call EXCEPT ![cur[t]].lazy = ~cache.set]
  /\ UNCHANGED <<cache, cur, ver>>

\* line 37: return copy.deepcopy(self._cache), leaving the with block
EnvCopy(t) ==
  /\ At(t, "environment", "copy")
  /\ lockCount' = lockCount - 1
  /\ lockOwner' = OwnerAfterRelease
  /\ LET c == DeepCopy(cache)
     IN Leave(t, [call[cur[t]] EXCEPT !.readVer = ver],
              IF c.set THEN DictRet(CopyId(cur[t]), c.val) ELSE NoRet)
  /\ UNCHANGED <<cache, ver>>

\* ------------------------------------------------------- run_detection
\* lines 41-44, on a host of H; the call records the host of its pass
RdProbes(t, H) ==
  /\ At(t, "run_detection", "probes")
  /\ \E h \in H :
     LET r == ProbeStage(h)
         rec == [call[cur[t]] EXCEPT
                   !.host = h,
                   !.raised = r.raised,
                   !.passes = @ + 1,
                   !.events = @ \o ProbeEvents(r.order),
                   !.probes = [b \in DOMAIN @ |->
                                 IF b \in r.invoked THEN @[b] + 1 ELSE @[b]]]
     IN IF r.raised
        THEN RaiseIn(t, rec, Overtaken(cur[t]))
        ELSE /\ call' = [Overtaken(cur[t]) EXCEPT ![cur[t]] = rec]
             /\ stack' = [stack EXCEPT ![t] =
                  Rest(t) \o <<[Top(t) EXCEPT !.pc = "plugins", !.env = View(r.val)]>>]
             /\ UNCHANGED <<lockOwner, lockCount, cur>>
  /\ UNCHANGED <<cache, ver>>

\* lines 46-48
RdPlugins_PublishesEarly(t) ==
  /\ At(t, "run_detection", "plugins")
  /\ LET r == PluginStage(call[cur[t]].host, Top(t).env.val)
     IN /\ stack' = [stack EXCEPT ![t] =
             Rest(t) \o <<[Top(t) EXCEPT !.pc = "store", !.env = View(r.val)]>>]
        /\ call' = [call EXCEPT ![cur[t]].events = @ \o GetEvents(1)]
        /\ cache' = [set |-> TRUE, id |-> EnvId(cur[t]), val |-> Top(t).env.val]
  /\ UNCHANGED <<lockOwner, lockCount, cur, ver>>
RdPlugins(t) ==
  /\ At(t, "run_detection", "plugins")
  /\ LET r == PluginStage(call[cur[t]].host, Top(t).env.val)
     IN IF r.raised
        THEN Raise(t, [call[cur[t]] EXCEPT !.raised = TRUE])
        ELSE /\ stack' = [stack EXCEPT ![t] =
                  Rest(t) \o <<[Top(t) EXCEPT !.pc = "store", !.env = View(r.val)]>>]
             /\ call' = [call EXCEPT ![cur[t]].events = @ \o GetEvents(1)]
             /\ UNCHANGED <<lockOwner, lockCount, cur>>
  /\ UNCHANGED <<cache, ver>>

\* lines 50-54: with self._cache_lock: self._cache = environment, then
\* if notify_plugins: self.notify_plugins()
RdStore_NotifiesBeforeStoring(t) ==
  /\ At(t, "run_detection", "store")
  /\ CanAcquire(t)
  /\ IF Top(t).notify
     THEN /\ stack' = [stack EXCEPT ![t] =
               Rest(t) \o <<[Top(t) EXCEPT !.notify = FALSE],
                            Frame("notify_plugins", FALSE)>>]
          /\ UNCHANGED <<cache, ver, call>>
     ELSE /\ cache' = [set |-> TRUE, id |-> EnvId(cur[t]), val |-> Top(t).env.val]
          /\ ver' = ver + 1
          /\ call' = [call EXCEPT ![cur[t]].storeVer = ver + 1,
                                  ![cur[t]].events = Append(@, Event("store", 0))]
          /\ stack' = [stack EXCEPT ![t] = Rest(t) \o <<[Top(t) EXCEPT !.pc = "return"]>>]
  /\ UNCHANGED <<lockOwner, lockCount, cur>>
RdStore_NoStore(t) ==
  /\ At(t, "run_detection", "store")
  /\ CanAcquire(t)
  /\ LET f == [Top(t) EXCEPT !.pc = "return"]
     IN stack' = [stack EXCEPT ![t] =
                    IF f.notify THEN Rest(t) \o <<f, Frame("notify_plugins", FALSE)>>
                    ELSE Rest(t) \o <<f>>]
  /\ UNCHANGED <<cache, ver, call, lockOwner, lockCount, cur>>
RdStore(t) ==
  /\ At(t, "run_detection", "store")
  /\ CanAcquire(t)
  /\ cache' = [set |-> TRUE, id |-> EnvId(cur[t]), val |-> Top(t).env.val]
  /\ ver' = ver + 1
  /\ call' = [call EXCEPT ![cur[t]].storeVer = ver + 1,
                          ![cur[t]].later = {},
                          ![cur[t]].events = Append(@, Event("store", 0))]
  /\ LET f == [Top(t) EXCEPT !.pc = "return"]
     IN stack' = [stack EXCEPT ![t] =
                    IF f.notify THEN Rest(t) \o <<f, Frame("notify_plugins", FALSE)>>
                    ELSE Rest(t) \o <<f>>]
  /\ UNCHANGED <<lockOwner, lockCount, cur>>

\* line 56: return environment (the dict that was stored, not a copy)
RdReturn(t) ==
  /\ At(t, "run_detection", "return")
  /\ Leave(t, call[cur[t]], DictRet(EnvId(cur[t]), Top(t).env.val))
  /\ UNCHANGED <<cache, lockOwner, lockCount, ver>>

\* lines 57-61: with self._cache_lock: self._cache = dict(); return self._cache
RdExcept_KeepCache(t) ==
  /\ At(t, "run_detection", "except")
  /\ CanAcquire(t)
  /\ Leave(t, [call[cur[t]] EXCEPT !.passEnd = CacheView(cache)],
           IF cache.set THEN DictRet(cache.id, cache.val) ELSE NoRet)
  /\ UNCHANGED <<cache, ver, lockOwner, lockCount>>
RdExcept(t) ==
  /\ At(t, "run_detection", "except")
  /\ CanAcquire(t)
  /\ cache' = [set |-> TRUE, id |-> FailId(cur[t]), val |-> EmptyDict]
  /\ ver' = ver + 1
  /\ Leave(t, [call[cur[t]] EXCEPT !.storeVer = ver + 1,
                                   !.later = {},
                                   !.events = Append(@, Event("store", 0)),
                                   !.passEnd = CacheView(cache')],
           DictRet(FailId(cur[t]), EmptyDict))
  /\ UNCHANGED <<lockOwner, lockCount>>

\* ------------------------------------------------------ notify_plugins
\* lines 157-159: with self._cache_lock: if self._cache is None:
\* self.run_detection(notify_plugins=False)
NpLock_NotifyingPass(t) ==
  /\ At(t, "notify_plugins", "lock")
  /\ CanAcquire(t)
  /\ lockOwner' = t
  /\ lockCount' = lockCount + 1
  /\ LET f == [Top(t) EXCEPT !.pc = "copy", !.holds = TRUE]
     IN stack' = [stack EXCEPT ![t] =
                    IF cache.set THEN Rest(t) \o <<f>>
                    ELSE Rest(t) \o <<f, Frame("run_detection", TRUE)>>]
  /\ call' = [call EXCEPT ![cur[t]].lazy = IF Len(stack[t]) = 1 THEN ~cache.set ELSE @]
  /\ UNCHANGED <<cache, cur, ver>>
NpLock(t) ==
  /\ At(t, "notify_plugins", "lock")
  /\ CanAcquire(t)
  /\ lockOwner' = t
  /\ lockCount' = lockCount + 1
  /\ LET f == [Top(t) EXCEPT !.pc = "copy", !.holds = TRUE]
     IN stack' = [stack EXCEPT ![t] =
                    IF cache.set THEN Rest(t) \o <<f>>
                    ELSE Rest(t) \o <<f, Frame("run_detection", FALSE)>>]
  /\ call' = [call EXCEPT ![cur[t]].lazy = IF Len(stack[t]) = 1 THEN ~cache.set ELSE @]
  /\ UNCHANGED <<cache, cur, ver>>

\* line 160: environment = copy.deepcopy(self._cache), leaving the with block
NpCopy(t) ==
  /\ At(t, "notify_plugins", "copy")
  /\ lockCount' = lockCount - 1
  /\ lockOwner' = OwnerAfterRelease
  /\ stack' = [stack EXCEPT ![t] =
       Rest(t) \o <<[Top(t) EXCEPT !.pc = "loop", !.holds = FALSE,
                                   !.env = DeepCopy(cache)]>>]
  /\ UNCHANGED <<cache, cur, call, ver>>

\* the calls the loop of lines 162-167 makes: every plugin in registration
\* order gets the one copy; a raising on_environment_detected is caught
Notifications(n, environment) ==
  [p \in Plugins |-> [plugin |-> _identifier(p), arg |-> environment,
                      raised |-> n[p] = "raise"]]

NpLoop(t) ==
  /\ At(t, "notify_plugins", "loop")
  /\ \E n \in NotifyCases :
       Leave(t, [call[cur[t]] EXCEPT !.notif = @ \o Notifications(n, Top(t).env),
                                     !.events = @ \o NotifyEvents(1)],
             NoRet)
  /\ UNCHANGED <<cache, lockOwner, lockCount, ver>>

\* -------------------------------------------- log_detected_environment
\* lines 141-143: with self._cache_lock: if self._cache is None: self.run_detection()
FmtLock(t) ==
  /\ At(t, "_format", "lock")
  /\ CanAcquire(t)
  /\ lockOwner' = t
  /\ lockCount' = lockCount + 1
  /\ LET f == [Top(t) EXCEPT !.pc = "copy", !.holds = TRUE]
     IN stack' = [stack EXCEPT ![t] =
                    IF cache.set THEN Rest(t) \o <<f>>
                    ELSE Rest(t) \o <<f, Frame("run_detection", TRUE)>>]
  /\ call' = [call EXCEPT ![cur[t]].lazy = ~cache.set]
  /\ UNCHANGED <<cache, cur, ver>>

\* lines 144-154: the copy, leaving the with block, and the message; a copy
\* without the python / os entries makes the message raise
FmtCopy(t) ==
  /\ At(t, "_format", "copy")
  /\ LET c == DeepCopy(cache)
     IN IF c.set /\ CanFormat(c.val)
        THEN /\ lockCount' = lockCount - 1
             /\ lockOwner' = OwnerAfterRelease
             /\ Leave(t, call[cur[t]], NoRet)
        ELSE Raise(t, call[cur[t]])
  /\ UNCHANGED <<cache, ver>>

\* line 136, _log(message)
LogEmit(t) ==
  /\ At(t, "log_detected_environment", "emit")
  /\ Leave(t, [call[cur[t]] EXCEPT !.logged = "message"], NoRet)
  /\ UNCHANGED <<cache, lockOwner, lockCount, ver>>

\* lines 137-138: except Exception: self._logger.exception(...)
LogFailed(t) ==
  /\ At(t, "log_detected_environment", "failed")
  /\ Leave(t, [call[cur[t]] EXCEPT !.logged = "error"], NoRet)
  /\ UNCHANGED <<cache, lockOwner, lockCount, ver>>

\* ------------------------------------------------------- specifications
Step(t) ==
  \/ EnvLock(t)
  \/ EnvCopy(t)
  \/ RdProbes(t, Hosts)
  \/ RdPlugins(t)
  \/ RdStore(t)
  \/ RdReturn(t)
  \/ RdExcept(t)
  \/ NpLock(t)
  \/ NpCopy(t)
  \/ NpLoop(t)
  \/ FmtLock(t)
  \/ FmtCopy(t)
  \/ LogEmit(t)
  \/ LogFailed(t)

Next ==
  \/ \E t \in Threads : \E op \in Ops : \E notify \in BOOLEAN :
       /\ op # "run_detection" => notify
       /\ Call(t, op, notify, MaxCalls)
  \/ \E t \in Threads : Step(t)
  \/ \E k \in 1..MaxCalls : CallerMutate(k)

Spec == Init /\ [][Next]_vars

\* every thread that can take a step eventually takes one
FairSpec == Spec /\ \A t \in Threads : WF_vars(Step(t))

\* the probe specification: one thread runs one detection pass on any host
NextProbe ==
  \/ /\ call = <<>>
     /\ \E notify \in BOOLEAN : Call(1, "run_detection", notify, 1)
  \/ RdProbes(1, ProbeHosts)
  \/ RdPlugins(1)
  \/ RdStore(1)
  \/ RdReturn(1)
  \/ RdExcept(1)
  \/ NpLock(1)
  \/ NpCopy(1)
  \/ NpLoop(1)

SpecProbe == Init /\ [][NextProbe]_vars

\* the sequential specification: one thread makes call after call and changes
\* the dicts it was handed
NextSeq ==
  \/ \E op \in Ops : \E notify \in BOOLEAN :
       /\ op # "run_detection" => notify
       /\ Call(1, op, notify, MaxSeqCalls)
  \/ Step(1)
  \/ \E k \in 1..MaxSeqCalls : CallerMutate(k)

SpecSeq == Init /\ [][NextSeq]_vars

\* the sequential specification with plugins that keep and change the
\* mappings they returned
NextRetain ==
  \/ NextSeq
  \/ \E k \in 1..MaxSeqCalls : \E p \in Plugins : PluginMutate(k, p)

SpecRetain == Init /\ [][NextRetain]_vars

\* =============================================================== claims
Calls == 1..Len(call)
Done(k) == call[k].status # "running"
Returned(k) == call[k].status = "returned"
IsRead(k) == call[k].op = "environment"
ReadDone(k) == IsRead(k) /\ Returned(k) /\ call[k].ret.kind = "dict"

RECURSIVE Total(_, _)
Total(F(_), n) == IF n = 0 THEN 0 ELSE F(n) + Total(F, n - 1)
PassesOf(k) == call[k].passes
OsCallsOf(k) == call[k].probes["os"]
PythonCallsOf(k) == call[k].probes["python"]
HardwareCallsOf(k) == call[k].probes["hardware"]

\* only environment reads have been made, and all of them are over
OnlyReadsAllDone ==
  /\ Len(call) >= 1
  /\ \A k \in Calls : IsRead(k) /\ Done(k)

AllReadsEqual ==
  \A i, j \in Calls : /\ ReadDone(i)
                      /\ ReadDone(j)
                      /\ call[i].ret.val = call[j].ret.val

\* C1 as stated: when threads only read environment on a fresh detector,
\* exactly one detection pass is performed, each of the three built-in probes
\* is invoked exactly once, and all reads return value-equal snapshots.
C1_EachProbeExactlyOnce ==
  OnlyReadsAllDone =>
    /\ Total(PassesOf, Len(call)) = 1
    /\ Total(OsCallsOf, Len(call)) = 1
    /\ Total(PythonCallsOf, Len(call)) = 1
    /\ Total(HardwareCallsOf, Len(call)) = 1
    /\ AllReadsEqual

\* C1 amended: when threads only read environment on a fresh detector,
\* exactly one detection pass is performed: the OS probe is invoked exactly
\* once, the runtime and the hardware probe exactly once each when the OS
\* probe returns and not at all when it raises; all reads return value-equal
\* snapshots.
C1_OnePassIdenticalReads ==
  OnlyReadsAllDone =>
    /\ Total(PassesOf, Len(call)) = 1
    /\ Total(OsCallsOf, Len(call)) = 1
    /\ \E k \in Calls :
         /\ call[k].passes = 1
         /\ Total(PythonCallsOf, Len(call)) = (IF call[k].raised THEN 0 ELSE 1)
         /\ Total(HardwareCallsOf, Len(call)) = (IF call[k].raised THEN 0 ELSE 1)
    /\ AllReadsEqual

\* two threads have read concurrently, the OS probe returned
C1_Witness ==
  /\ OnlyReadsAllDone
  /\ \E i, j \in Calls : /\ call[i].t # call[j].t
                         /\ call[j].overlap
                         /\ call[i].lazy
                         /\ ~call[i].raised
                         /\ "plugins" \in DOMAIN call[j].ret.val

\* thread t has run the probes of a pass whose result is not stored yet
Detecting(t) ==
  \E i \in 1..Len(stack[t]) :
    /\ stack[t][i].fn = "run_detection"
    /\ stack[t][i].pc \in {"plugins", "store"}

\* thread t runs a pass that a read of the uninitialized cache started
DetectingInsideLock(t) ==
  \E i \in 2..Len(stack[t]) :
    /\ stack[t][i].fn = "run_detection"
    /\ stack[t][i].pc \in {"probes", "plugins", "store"}

HeldBy(t) == Cardinality({i \in 1..Len(stack[t]) : stack[t][i].holds})

\* thread t waits for the lock
Blocked(t) ==
  /\ stack[t] # <<>>
  /\ Top(t).pc \in {"lock", "store", "except"}
  /\ ~CanAcquire(t)

C3_CallerCannotChangeCache ==
  [][\A k \in 1..MaxCalls : CallerMutate(k) => cache' = cache]_vars

\* C4 as stated: two environment reads with no cache store between them
\* return value-equal snapshots in distinct objects, none of them the cached
\* object.
C4_IdempotentRead ==
  \A i, j \in Calls :
    (i < j /\ ReadDone(i) /\ ReadDone(j) /\ call[i].readVer = call[j].readVer) =>
      /\ call[i].ret.val = call[j].ret.val
      /\ call[i].ret.id # call[j].ret.id
      /\ cache.id \notin {call[i].ret.id, call[j].ret.id}

\* C5 as stated: the environment read that finds the cache uninitialized
\* triggers exactly one pass and leaves a non-empty record in the cache.
C5_LazyReadLeavesNonEmptyCache ==
  \A k \in Calls :
    (IsRead(k) /\ Done(k) /\ call[k].lazy) =>
      /\ call[k].passes = 1
      /\ Returned(k)
      /\ call[k].ret.kind = "dict"
      /\ call[k].ret.val # EmptyDict

\* C5 amended: the environment read that finds the cache uninitialized
\* triggers exactly one pass (its notification starts no second one) and
\* leaves a record in the cache: the snapshot with os, python and hardware
\* when the pass completed, the empty record when the OS probe raised.  A
\* read that finds the cache initialized triggers no pass.
C5_LazyReadOnePass ==
  \A k \in Calls :
    (IsRead(k) /\ Done(k)) =>
      /\ call[k].passes = (IF call[k].lazy THEN 1 ELSE 0)
      /\ Returned(k)
      /\ call[k].ret.kind = "dict"
      /\ call[k].lazy =>
           IF call[k].raised
           THEN call[k].ret.val = EmptyDict
           ELSE {"os", "python", "hardware"} \subseteq DOMAIN call[k].ret.val

\* a first read has run its pass and notified the plugins
C5_Witness ==
  \E k \in Calls : /\ IsRead(k)
                   /\ Returned(k)
                   /\ call[k].lazy
                   /\ call[k].passes = 1
                   /\ Len(call[k].notif) = NumPlugins
                   /\ call[k].ret.val # EmptyDict

\* C6: an environment read never raises and returns a record, whatever the
\* probes and the plugin calls do; when the OS probe and with it the pass
\* raises, the read returns the empty record.
C6_TotalRead ==
  \A k \in Calls :
    (IsRead(k) /\ Done(k)) =>
      /\ Returned(k)
      /\ call[k].ret.kind = "dict"
      /\ (call[k].lazy /\ call[k].host.os = "raise") => call[k].ret.val = EmptyDict

\* a read on the host where every lookup and every plugin raises has returned
C6_Witness ==
  \E k \in Calls : /\ IsRead(k)
                   /\ Returned(k)
                   /\ call[k].lazy
                   /\ call[k].host = HostDown
                   /\ call[k].ret.val = EmptyDict

\* C7 as stated, for the calls that return their snapshot: after
\* run_detection(notify_plugins=True) every plugin has been notified exactly
\* once by the call, with a value equal to the snapshot the call returns.
C7_NotifiedWithReturnedSnapshot ==
  \A k \in Calls :
    (call[k].op = "run_detection" /\ call[k].notify /\ Returned(k) /\ ~call[k].raised) =>
      \A p \in Plugins :
        /\ Cardinality({i \in 1..Len(call[k].notif) :
                          call[k].notif[i].plugin = _identifier(p)}) = 1
        /\ \A i \in 1..Len(call[k].notif) :
             /\ call[k].notif[i].arg.set
             /\ call[k].notif[i].arg.val = call[k].ret.val

\* the plugins' get_additional_environment raising is replaced by returning None
WithoutRaisingPlugins(h) ==
  [h EXCEPT !.get = [p \in Plugins |-> IF h.get[p] = "raise" THEN "none" ELSE h.get[p]]]

Contributors(h) == {p \in Plugins : h.get[p] \in Facts}

\* C8: once a pass has collected from the plugins, the plugins section of its
\* snapshot holds exactly the non-empty mappings, each under its plugin's
\* identifier, nothing of a raising plugin, and os, python and hardware are
\* what they are when no plugin raises.
C8_PluginIsolation ==
  \A k \in Calls :
    (call[k].op = "run_detection" /\ Returned(k) /\ ~call[k].raised) =>
      LET h == call[k].host
          v == call[k].ret.val
      IN /\ ("plugins" \in DOMAIN v) <=> (Contributors(h) # {})
         /\ "plugins" \in DOMAIN v =>
              /\ DOMAIN v["plugins"] = {_identifier(p) : p \in Contributors(h)}
              /\ \A p \in Contributors(h) :
                   v["plugins"][_identifier(p)] = [key |-> h.get[p]]
         /\ \A c \in {"os", "python", "hardware"} :
              /\ c \in DOMAIN v
              /\ v[c] = BuildEnvironment(WithoutRaisingPlugins(h))[c]

\* a pass with a raising plugin before a contributing one has returned
C8_Witness ==
  \E k \in Calls : /\ Returned(k)
                   /\ ~call[k].raised
                   /\ call[k].host.get[1] = "raise"
                   /\ call[k].host.get[2] = "b"
                   /\ "plugins" \in DOMAIN call[k].ret.val
                   /\ DOMAIN call[k].ret.val["plugins"] = {_identifier(2)}

\* C9 as stated: each hardware field is "unknown" only when its own lookup
\* fails; with a raising CPU-count lookup cores is "unknown" while freq and
\* ram carry the values of their lookups.
C9_HardwareFieldsIndependent ==
  \A k \in Calls :
    (call[k].op = "run_detection" /\ Returned(k) /\ ~call[k].raised) =>
      LET hw == call[k].host.hw
          v  == call[k].ret.val["hardware"]
      IN /\ hw.cores = "ok" => v.cores = "4"
         /\ hw.freq = "ok" => v.freq = "1400"
         /\ hw.ram = "ok" => v.ram = "1G"
         /\ hw.cores # "ok" => v.cores = "unknown"

RunsPass(k) ==
  /\ call[k].status = "running"
  /\ \E i \in 1..Len(stack[call[k].t]) : stack[call[k].t][i].fn = "run_detection"

C11_CategoryKeysAlwaysPresent ==
  ver >= 1 => {"os", "python"} \subseteq DOMAIN cache.val

\* the categories of a snapshot and the fields each always has
HasCategories(d) ==
  /\ {"os", "python", "hardware"} \subseteq DOMAIN d
  /\ DOMAIN d["os"] = {"id", "platform"}
  /\ {"version", "pip"} \subseteq DOMAIN d["python"]
  /\ DOMAIN d["hardware"] = {"cores", "freq", "ram"}

\* C11 amended: every snapshot a detection pass stores in the cache is either
\* the empty degraded record, when an exception left the OS probe or the
\* orchestration, or contains the category keys os, python and hardware with
\* all their fields (fields may be "unknown"), whatever failed inside the
\* runtime probe, the hardware probe or the plugins.
C11_StoredSnapshotHasCategories ==
  [][ver' # ver =>
       /\ cache'.set
       /\ \E k \in 1..Len(call') :
            /\ call'[k].storeVer = ver'
            /\ IF call'[k].raised
               THEN cache'.val = EmptyDict
               ELSE HasCategories(cache'.val)]_vars

\* a pass with failing runtime and hardware lookups and a raising plugin has
\* stored its snapshot
C11_Witness ==
  /\ cache.set
  /\ \E k \in Calls : /\ call[k].host = HostB
                      /\ call[k].storeVer = ver
                      /\ ~call[k].raised
  /\ {"os", "python"} \subseteq DOMAIN cache.val
  /\ cache.val["python"].pip = "unknown"
  /\ cache.val["hardware"].cores = "unknown"

\* the plugins whose get_additional_environment call k has called
Asked(k) == {call[k].events[i].p : i \in {j \in 1..Len(call[k].events) :
                                            call[k].events[j].e = "get"}}

\* C12: a plugin whose get_additional_environment returns None, an empty
\* mapping or a non-mapping value has no entry under plugins, and the snapshot
\* of a pass has a plugins key if and only if at least one plugin returned a
\* non-empty mapping during that pass (none did when the pass was aborted
\* before the collection).
C12_PluginOmission ==
  \A k \in Calls :
    (call[k].op = "run_detection" /\ Returned(k)) =>
      LET h == call[k].host
          v == call[k].ret.val
          returnedMapping == {p \in Plugins : /\ _identifier(p) \in Asked(k)
                                              /\ h.get[p] \in Facts}
      IN /\ ("plugins" \in DOMAIN v) <=> (returnedMapping # {})
         /\ ~call[k].raised => Asked(k) = {_identifier(p) : p \in Plugins}
         /\ \A p \in Plugins :
              (h.get[p] \in {"none", "empty", "nonmap"} /\ "plugins" \in DOMAIN v) =>
                _identifier(p) \notin DOMAIN v["plugins"]

\* a pass whose plugins returned an empty mapping and a non-mapping value has
\* returned a snapshot without the plugins key
C12_Witness ==
  \E k \in Calls : /\ call[k].op = "run_detection"
                   /\ Returned(k)
                   /\ ~call[k].raised
                   /\ call[k].host.get[1] = "empty"
                   /\ call[k].host.get[2] = "nonmap"
                   /\ "os" \in DOMAIN call[k].ret.val
                   /\ "plugins" \notin DOMAIN call[k].ret.val

\* a dict without the key a caller added to it
WithoutCallerKeys(d) == [c \in DOMAIN d \ {"tampered"} |-> d[c]]

\* the complete snapshot of the pass of call j: what its probes and plugins
\* yield together, or the empty record of a failed pass
SnapshotOf(j) ==
  IF call[j].raised THEN EmptyDict ELSE BuildEnvironment(call[j].host)

NotifiedTimes(k, p) ==
  Cardinality({i \in 1..Len(call[k].notif) : call[k].notif[i].plugin = _identifier(p)})

\* C14: a notify_plugins call that finds the cache uninitialized performs
\* exactly one detection pass, which notifies nobody, and then calls
\* on_environment_detected exactly once on every plugin, contributing or
\* not, with the cached snapshot; one that finds the cache initialized
\* performs no pass and notifies every plugin exactly once.
C14_NotifyOnUninitializedCache ==
  \A k \in Calls :
    (call[k].op = "notify_plugins" /\ Done(k)) =>
      /\ Returned(k)
      /\ call[k].passes = (IF call[k].lazy THEN 1 ELSE 0)
      /\ Len(call[k].notif) = NumPlugins
      /\ \A p \in Plugins : NotifiedTimes(k, p) = 1
      /\ \A i \in 1..Len(call[k].notif) : call[k].notif[i].arg.set
      /\ call[k].lazy =>
           \A i \in 1..Len(call[k].notif) : call[k].notif[i].arg.val = SnapshotOf(k)

\* notify_plugins on the uninitialized cache has run its pass and notified a
\* plugin that contributed nothing
C14_Witness ==
  \E k \in Calls : /\ call[k].op = "notify_plugins"
                   /\ Returned(k)
                   /\ call[k].lazy
                   /\ call[k].passes = 1
                   /\ ~call[k].raised
                   /\ call[k].host.get[2] = "none"
                   /\ NotifiedTimes(k, 2) = 1

\* the run_detection calls that are over
PassOver(k) == call[k].op = "run_detection" /\ Done(k)

ProbeRaises(h) ==
  \/ h.os = "raise"
  \/ "raise" \in {h.py.version, h.py.venv, h.py.pip}
  \/ "raise" \in {h.hw.cores, h.hw.freq, h.hw.ram}

\* C15 as stated: an exception raised inside any of the three built-in
\* probes stays in that probe: the other probes and the plugin collection still
\* run, the pass completes and its snapshot carries the other categories.
C15_EveryProbeIsolated ==
  \A k \in Calls :
    (PassOver(k) /\ ProbeRaises(call[k].host)) =>
      /\ Returned(k)
      /\ \A b \in {"os", "python", "hardware"} : call[k].probes[b] = 1
      /\ Asked(k) = {_identifier(p) : p \in Plugins}
      /\ \E c \in {"os", "python", "hardware"} : c \in DOMAIN call[k].ret.val

\* C15 amended: an exception raised by a lookup of the runtime probe or of the
\* hardware probe stays in that probe: all three probes and the plugin
\* collection run, the pass completes, and the snapshot carries os as the OS
\* probe returned it, python with the fallbacks of the failed lookups and
\* hardware (all three fields "unknown" when a hardware lookup raised).  An
\* exception raised inside the OS probe is not contained: the runtime probe,
\* the hardware probe and the plugin collection do not run, and the pass ends
\* with the empty record, which run_detection returns without raising.
C15_RuntimeAndHardwareIsolated ==
  \A k \in Calls :
    PassOver(k) =>
      LET h == call[k].host
          v == call[k].ret.val
      IN /\ Returned(k)
         /\ call[k].ret.kind = "dict"
         /\ IF h.os = "raise"
            THEN /\ call[k].probes = [os |-> 1, python |-> 0, hardware |-> 0]
                 /\ Asked(k) = {}
                 /\ v = EmptyDict
            ELSE /\ call[k].probes = [os |-> 1, python |-> 1, hardware |-> 1]
                 /\ Asked(k) = {_identifier(p) : p \in Plugins}
                 /\ HasCategories(v)
                 /\ v["os"] = [id |-> "linux", platform |-> "linux2"]
                 /\ v["python"].version = (IF h.py.version = "ok" THEN "3.7.3" ELSE "unknown")
                 /\ v["python"].pip = (IF h.py.pip = "ok" THEN "19.0" ELSE "unknown")
                 /\ ("virtualenv" \in DOMAIN v["python"]) <=> (h.py.venv = "ok")
                 /\ "raise" \in {h.hw.cores, h.hw.freq, h.hw.ram} =>
                      v["hardware"] = [cores |-> "unknown", freq |-> "unknown", ram |-> "unknown"]
                 /\ ("plugins" \in DOMAIN v) <=> (Contributors(h) # {})

\* a pass whose runtime and hardware lookups raised has returned a snapshot
\* with all categories and the plugin data
C15_Witness ==
  \E k \in Calls : /\ PassOver(k)
                   /\ call[k].host.os = "ok"
                   /\ call[k].host.py.version = "raise"
                   /\ call[k].host.py.pip = "raise"
                   /\ call[k].host.hw.freq = "raise"
                   /\ HasCategories(call[k].ret.val)
                   /\ "plugins" \in DOMAIN call[k].ret.val

\* C16: an operation that takes the cache lock again on the thread that
\* holds it (environment -> run_detection -> notify_plugins, notify_plugins
\* -> run_detection) does not block on itself: when every thread that can
\* take a step eventually takes one, every call that was started is
\* eventually over, none of environment, run_detection and notify_plugins
\* having raised, and a lock that is held is eventually free.
C16_EveryCallReturns ==
  /\ \A t \in Threads : (cur[t] # 0) ~> (cur[t] = 0)
  /\ (lockOwner # 0) ~> (lockOwner = 0 /\ lockCount = 0)
  /\ [](\A k \in Calls :
          (Done(k) /\ call[k].op # "log_detected_environment") => Returned(k))

\* a thread is in notify_plugins inside run_detection inside environment and
\* holds the lock twice, another thread waits for it
C16_Witness ==
  \E t, u \in Threads :
    /\ t # u
    /\ Len(stack[t]) = 3
    /\ stack[t][1].fn = "environment"
    /\ stack[t][2].fn = "run_detection"
    /\ At(t, "notify_plugins", "copy")
    /\ lockOwner = t
    /\ lockCount = 2
    /\ Blocked(u)

\* the step is a cache store of an explicit run_detection call
ExplicitStore ==
  \E k \in Calls : /\ call[k].op = "run_detection"
                   /\ call'[k].storeVer # call[k].storeVer

\* C17: the cache starts uninitialized; once populated it never becomes
\* uninitialized again, and from then on no environment read, notify_plugins
\* call or log_detected_environment call starts a detection pass or changes
\* the cache, also when the cache holds the empty record: the cached object
\* is replaced only by the store of an explicit run_detection call (its value
\* changes besides only when a caller changes the dict run_detection handed
\* out, see C3).
C17_CacheLifecycle ==
  [][/\ call = <<>> => ~cache.set
     /\ cache.set => cache'.set
     /\ (cache.set /\ cache' # cache) =>
          (ExplicitStore \/ \E k \in Calls : CallerMutate(k))
     /\ (cache.set /\ cache'.id # cache.id) => ExplicitStore
     /\ \A k \in Calls :
          (call[k].op # "run_detection" /\ call'[k].passes # call[k].passes) =>
            ~cache.set]_vars

\* with the empty record cached, a read has returned it without a pass
C17_Witness ==
  /\ cache.set
  /\ cache.val = EmptyDict
  /\ \E k \in Calls : /\ IsRead(k)
                      /\ Returned(k)
                      /\ ~call[k].lazy
                      /\ call[k].passes = 0
                      /\ call[k].readVer = ver
                      /\ call[k].ret.val = EmptyDict

\* C18 as stated: when the pass of an explicit run_detection call stores its
\* snapshot, no explicit run_detection call of another thread whose pass began
\* probing later has already stored a different snapshot: the earlier pass
\* never overwrites the later one's snapshot.
C18_NoLostUpdate ==
  [][\A j \in Calls :
       (call[j].op = "run_detection" /\ call'[j].storeVer # call[j].storeVer) =>
         ~ \E k \in call[j].later :
             /\ call[k].t # call[j].t
             /\ call[k].storeVer >= 1
             /\ SnapshotOf(k) # cache'.val]_vars

\* the place of an event in the order of one pass: the probes in the order
\* os, python, hardware, then the plugins' get_additional_environment in
\* registration order, then the cache store, then the plugins'
\* on_environment_detected in registration order
Rank(ev) ==
  CASE ev.e = "os"       -> 1
    [] ev.e = "python"   -> 2
    [] ev.e = "hardware" -> 3
    [] ev.e = "get"      -> 3 + ev.p
    [] ev.e = "store"    -> 4 + NumPlugins
    [] ev.e = "notify"   -> 4 + NumPlugins + ev.p

\* thread t is in the loop that calls on_environment_detected
Notifying(t) ==
  \E i \in 1..Len(stack[t]) :
    stack[t][i].fn = "notify_plugins" /\ stack[t][i].pc = "loop"

\* C19: within a call, every built-in probe runs before any plugin's
\* get_additional_environment, the get_additional_environment calls are made
\* in registration order and are all over before the cache store, and every
\* on_environment_detected comes after the store, in registration order;
\* while a plugin is being notified the cache is initialized and the plugin
\* gets a record.
C19_OrderInsidePass ==
  /\ \A k \in Calls :
       \A i, j \in 1..Len(call[k].events) :
         i < j => Rank(call[k].events[i]) < Rank(call[k].events[j])
  /\ \A k \in Calls :
       (call[k].storeVer >= 1 /\ ~call[k].raised) =>
         {"os", "python", "hardware"} \cup {"get", "store"} \subseteq
           {call[k].events[i].e : i \in 1..Len(call[k].events)}
  /\ \A t \in Threads : Notifying(t) => (cache.set /\ Top(t).env.set)

\* a run_detection call has probed, asked every plugin, stored and notified
\* every plugin
C19_Witness ==
  \E k \in Calls :
    /\ call[k].op = "run_detection"
    /\ Returned(k)
    /\ Len(call[k].events) = 4 + 2 * NumPlugins
    /\ call[k].events[1].e = "os"
    /\ call[k].events[4 + NumPlugins].e = "store"
    /\ call[k].events[4 + 2 * NumPlugins] = Event("notify", _identifier(NumPlugins))

\* C20 as stated: a plugin that keeps the mapping it returned from
\* get_additional_environment and changes it after the pass does not change
\* the cached snapshot.
C20_PluginCannotChangeCache ==
  [][\A k \in 1..MaxSeqCalls : \A p \in Plugins :
       PluginMutate(k, p) => cache' = cache]_vars
====
